---- MODULE Spec2Model ----
(***************************************************************************)
(* Model of grade-calculator/script.js: the DOM script (lines 1-198) and   *)
(* the React component GradeCalculator (lines 200-791).                    *)
(*                                                                         *)
(* Numbers.  A field of a grade entry is a JavaScript value; it is held as *)
(* a record [k, v] whose kind k is one of                                  *)
(*   "undefined"  the property is missing                                  *)
(*   "null"       null                                                     *)
(*   "empty"      the empty string ''                                      *)
(*   "text"       a string that is no number at all, such as 'abc'         *)
(*   "blank"      a string of white space, such as ' '                     *)
(*   "num"        a number or the string of a number; v is its value       *)
(* Scores (cc, tp, exam) are counted in thousandths (12.25 is 12250) and   *)
(* coefficients in units.  A JavaScript number that a computation yields   *)
(* is a record [nan, v]; averages are counted in ten-thousandths, so that  *)
(* the weights 0.3, 0.2, 0.5, 0.4 and 0.6 are exact.  Arithmetic is exact  *)
(* decimal arithmetic: the value sets below avoid the rounding ties on     *)
(* which an IEEE double could fall on the other side.                      *)
(***************************************************************************)
EXTENDS Integers, Sequences, FiniteSets, TLC

\* ------------------------------------------------------------------------
\* JavaScript values
\* ------------------------------------------------------------------------
Undefined == [k |-> "undefined", v |-> 0]
Null == [k |-> "null", v |-> 0]
Empty == [k |-> "empty", v |-> 0]
Text == [k |-> "text", v |-> 0]
Blank == [k |-> "blank", v |-> 0]
Num(n) == [k |-> "num", v |-> n]

NaN == [nan |-> TRUE, v |-> 0]
N(n) == [nan |-> FALSE, v |-> n]

\* isNaN(x): Number(x) is NaN.  Number(null), Number('') and Number(' ')
\* are 0; Number(undefined) and Number('abc') are NaN.
isNaN(x) == x.k \in {"undefined", "text"}

\* parseFloat(x): the number a string starts with, NaN when there is none.
parseFloat(x) == IF x.k = "num" THEN N(x.v) ELSE NaN

\* x * w for a weight w given in tenths: thousandths to ten-thousandths.
Times(x, w) == IF x.nan THEN NaN ELSE N(x.v * w)

Plus(a, b) == IF a.nan \/ b.nan THEN NaN ELSE N(a.v + b.v)

Mul(a, b) == IF a.nan \/ b.nan THEN NaN ELSE N(a.v * b.v)

\* a >= n and a < n on JavaScript numbers: false when a is NaN.
Ge(a, n) == ~a.nan /\ a.v >= n
Lt(a, n) == ~a.nan /\ a.v < n
Gt(a, n) == ~a.nan /\ a.v > n

\* n / d rounded to the nearest integer, halves away from zero (d > 0).
RoundDiv(n, d) == IF n >= 0 THEN (2 * n + d) \div (2 * d)
                  ELSE 0 - ((2 * (0 - n) + d) \div (2 * d))

\* Number.prototype.toFixed(2) of a number in ten-thousandths: the string
\* of the number rounded to hundredths, 'NaN' for NaN.  The string is held
\* as the number it spells.
toFixed(x) == IF x.nan THEN NaN ELSE N(100 * RoundDiv(x.v, 100))

\* (n / d).toFixed(2) for n in ten-thousandths and d > 0 in units.
QuotientToFixed(n, d) == IF n.nan \/ d.nan THEN NaN
                         ELSE N(100 * RoundDiv(n.v, 100 * d.v))

\* parseFloat of a string that toFixed produced.
parseFloatFixed(s) == s

\* ------------------------------------------------------------------------
\* DOM script: formulas
\* ------------------------------------------------------------------------
calculerMoyenne(notes) ==
    LET cc == notes.cc
        tp == notes.tp
        exam == notes.exam
        hasCC == cc # Null /\ cc # Undefined /\ ~isNaN(cc) /\ cc # Empty
        hasTP == tp # Null /\ tp # Undefined /\ ~isNaN(tp) /\ tp # Empty
        valCC == IF hasCC THEN parseFloat(cc) ELSE N(0)
        valTP == IF hasTP THEN parseFloat(tp) ELSE N(0)
        valExam == parseFloat(exam)
        note1 == IF hasCC THEN valCC ELSE valTP
    IN  IF hasCC /\ hasTP
        THEN toFixed(Plus(Plus(Times(valCC, 3), Times(valTP, 2)), Times(valExam, 5)))
        ELSE IF hasCC \/ hasTP
        THEN toFixed(Plus(Times(note1, 4), Times(valExam, 6)))
        ELSE toFixed(Times(valExam, 10))

\* getStyleMoyenne with the threshold of 'grade-good' made strict (moy > 10).
getStyleMoyenne_strict(moyenne) ==
    LET moy == parseFloatFixed(moyenne)
    IN  IF Ge(moy, 160000) THEN "grade-excellent"
        ELSE IF Gt(moy, 100000) THEN "grade-good"
        ELSE IF Ge(moy, 80000) THEN "grade-warning"
        ELSE "grade-danger"

getStyleMoyenne(moyenne) ==
    LET moy == parseFloatFixed(moyenne)
    IN  IF Ge(moy, 160000) THEN "grade-excellent"
        ELSE IF Ge(moy, 100000) THEN "grade-good"
        ELSE IF Ge(moy, 80000) THEN "grade-warning"
        ELSE "grade-danger"

\* ------------------------------------------------------------------------
\* React component: calculation utilities
\* ------------------------------------------------------------------------
\* calculateAverage with the weights of the continuous-assessment and the
\* practical score exchanged.
calculateAverage_swapped(cc, tp, exam) ==
    LET hasCC == cc # Empty /\ cc # Null /\ ~isNaN(cc)
        hasTP == tp # Empty /\ tp # Null /\ ~isNaN(tp)
        valCC == IF hasCC THEN parseFloat(cc) ELSE N(0)
        valTP == IF hasTP THEN parseFloat(tp) ELSE N(0)
        pExam == parseFloat(exam)
        valExam == IF pExam.nan \/ pExam.v = 0 THEN N(0) ELSE pExam
        note1 == IF hasCC THEN valCC ELSE valTP
    IN  IF hasCC /\ hasTP
        THEN Plus(Plus(Times(valCC, 2), Times(valTP, 3)), Times(valExam, 5))
        ELSE IF hasCC \/ hasTP
        THEN Plus(Times(note1, 4), Times(valExam, 6))
        ELSE Times(valExam, 10)

calculateAverage(cc, tp, exam) ==
    LET hasCC == cc # Empty /\ cc # Null /\ ~isNaN(cc)
        hasTP == tp # Empty /\ tp # Null /\ ~isNaN(tp)
        valCC == IF hasCC THEN parseFloat(cc) ELSE N(0)
        valTP == IF hasTP THEN parseFloat(tp) ELSE N(0)
        pExam == parseFloat(exam)
        valExam == IF pExam.nan \/ pExam.v = 0 THEN N(0) ELSE pExam
        note1 == IF hasCC THEN valCC ELSE valTP
    IN  IF hasCC /\ hasTP
        THEN Plus(Plus(Times(valCC, 3), Times(valTP, 2)), Times(valExam, 5))
        ELSE IF hasCC \/ hasTP
        THEN Plus(Times(note1, 4), Times(valExam, 6))
        ELSE Times(valExam, 10)

getStyleParams(avg) ==
    IF Ge(avg, 160000) THEN "Excellent"
    ELSE IF Ge(avg, 100000) THEN "Valide"
    ELSE IF Ge(avg, 80000) THEN "Rattrapage"
    ELSE "Echec"

\* ------------------------------------------------------------------------
\* Bounds and value sets
\* ------------------------------------------------------------------------
\* Largest number of entries the in-memory collection grows to.
MaxGrades == 2

\* Largest number of entries of a collection found in localStorage at boot.
MaxStored == 2

\* Largest value of Date.now() (the clock starts at 1).
MaxClock == 2

Apps == {"script", "component"}

\* What a form field can hold when the form is submitted.
FormSubjects == {"", "Math"}
FormCoefs == {Num(2)}
FormNotes == {Empty, Num(5000)}
FormExams == {Empty, Num(10000)}

\* Field values of entries found in localStorage at boot: every kind of
\* value, and scores on and around the thresholds 8, 10 and 16.
Absent == {Undefined, Null, Empty, Text}
RichNotes == Absent \cup {Blank, Num(0), Num(8000), Num(10000), Num(12260), Num(20000)}
RichExams == Absent \cup {Blank, Num(0), Num(7996), Num(8000), Num(9996), Num(10000),
                          Num(12260), Num(16000), Num(20000)}
BoundaryExams == {Num(7990), Num(9990), Num(15990)}
StoredCoefs == {Text, Num(0 - 1), Num(0), Num(1), Num(2)}
StoredNotes == {Empty, Num(12000)}
StoredExams == {Empty, Num(4000), Num(9996), Num(16000)}

Entry(subject, coef, cc, tp, exam, id) ==
    [subject |-> subject, coef |-> coef, cc |-> cc, tp |-> tp, exam |-> exam,
     id |-> id]

\* Entries whose three scores range over every kind of value, and entries
\* with nothing but an exam score just below a threshold.
RichEntries ==
    {Entry("Math", Num(1), cc, tp, exam, 1) :
        cc \in RichNotes, tp \in RichNotes, exam \in RichExams}
    \cup {Entry("Math", Num(1), cc, tp, exam, 1) :
        cc \in Absent, tp \in Absent, exam \in BoundaryExams}

\* Entries whose coefficient ranges over every kind of coefficient.
StoredEntries == {Entry("Math", coef, cc, Empty, exam, 1) :
                    coef \in StoredCoefs, cc \in StoredNotes, exam \in StoredExams}

\* The ids of the entries of a stored collection are their positions (the
\* script neither writes nor reads the id).
WithIds(g) == [i \in 1..Len(g) |-> [g[i] EXCEPT !.id = i]]

SeqsUpTo(S, n) == UNION {[1..m -> S] : m \in 0..n}

\* A stored collection of three entries: all three scores with coefficient
\* 2, an exam score alone, and a practical score with an exam score. A score
\* the entry does not have is a property the stored object lacks.
ScenarioCollection ==
    << Entry("Analyse", Num(2), Num(12000), Num(14000), Num(10000), 1),
       Entry("Reseaux", Num(1), Undefined, Undefined, Num(16000), 2),
       Entry("Physique", Num(1), Undefined, Num(6000), Num(4000), 3) >>

StoredCollections ==
    {<<e>> : e \in RichEntries}
    \cup {WithIds(g) : g \in SeqsUpTo(StoredEntries, MaxStored)}
    \cup {ScenarioCollection}

\* ------------------------------------------------------------------------
\* State
\* ------------------------------------------------------------------------
VARIABLES
    app,            \* which of the two programs the page runs
    pc,             \* "boot" before the program has run, "ready" after
    grades,         \* the collection in memory
    storage,        \* the localStorage item of the program's key
    rows,           \* the table body: per entry, its average and its style
    generalAvg,     \* the general average shown
    validatedCount, \* the number of validated subjects shown
    dangerCount,    \* the number of subjects in danger shown
    clock,          \* Date.now()
    declined        \* the handler that ran last asked confirm() and got false

vars == <<app, pc, grades, storage, rows, generalAvg, validatedCount,
          dangerCount, clock, declined>>

\* What an element shows: '-', or the text of a number.
Dash == [t |-> "dash", nan |-> FALSE, v |-> 0]
Shown(x) == [t |-> "text", nan |-> x.nan, v |-> x.v]

\* localStorage.getItem(key): null when the key was never set.
NoItem == [has |-> FALSE, data |-> <<>>]
\* JSON.stringify of a collection, as JSON.parse reads it back: a missing
\* property is left out and is missing again, every other field value of
\* the kinds above is written and read back as it is.
Item(g) == [has |-> TRUE, data |-> g]

RECURSIVE SumNums(_)
SumNums(s) == IF s = <<>> THEN N(0) ELSE Plus(Head(s), SumNums(Tail(s)))

\* ------------------------------------------------------------------------
\* DOM script: render functions and data management
\* ------------------------------------------------------------------------
\* The statistics updateStats computes for a collection (lines 92-112):
\* what it writes into generalAverageEl, validatedCountEl, dangerCountEl.
computeStats(g) ==
    LET avg == [i \in 1..Len(g) |-> parseFloatFixed(calculerMoyenne(
                   [cc |-> g[i].cc, tp |-> g[i].tp, exam |-> g[i].exam]))]
        coef == [i \in 1..Len(g) |-> parseFloat(g[i].coef)]
        totalPoints == SumNums([i \in 1..Len(g) |-> Mul(avg[i], coef[i])])
        totalCoef == SumNums(coef)
        validated == Cardinality({i \in 1..Len(g) : Ge(avg[i], 100000)})
        danger == Cardinality({i \in 1..Len(g) : Lt(avg[i], 80000)})
        general == IF Gt(totalCoef, 0)
                   THEN QuotientToFixed(totalPoints, totalCoef)
                   ELSE N(0)
    IN  [generalAvg |-> Shown(general), validated |-> Shown(N(validated)),
         danger |-> Shown(N(danger))]

\* updateStats without its branch for the empty collection.
updateStats_noDash(g) == computeStats(g)

updateStats(g) ==
    IF Len(g) = 0
    THEN [generalAvg |-> Dash, validated |-> Dash, danger |-> Dash]
    ELSE computeStats(g)

\* The rows renderTable appends to the table body.
tableRows(g) ==
    [i \in 1..Len(g) |->
        LET avg == calculerMoyenne([cc |-> g[i].cc, tp |-> g[i].tp, exam |-> g[i].exam])
        IN  [avg |-> avg, style |-> getStyleMoyenne(avg)]]

\* saveData(): localStorage.setItem('gradeData', JSON.stringify(grades)).
saveData(g) == Item(g)

\* renderTable that returns on an empty collection before updateStats().
renderTable_early(g) ==
    LET stats == updateStats(g)
    IN  /\ rows' = tableRows(g)
        /\ generalAvg' = IF Len(g) = 0 THEN generalAvg ELSE stats.generalAvg
        /\ validatedCount' = IF Len(g) = 0 THEN validatedCount ELSE stats.validated
        /\ dangerCount' = IF Len(g) = 0 THEN dangerCount ELSE stats.danger
        /\ storage' = IF Len(g) = 0 THEN storage ELSE saveData(g)

\* renderTable() on the collection g: the table, the statistics and the
\* stored item it leaves.  On an empty collection it returns before
\* saveData().
renderTable(g) ==
    LET stats == updateStats(g)
    IN  /\ rows' = tableRows(g)
        /\ generalAvg' = stats.generalAvg
        /\ validatedCount' = stats.validated
        /\ dangerCount' = stats.danger
        /\ storage' = IF Len(g) = 0 THEN storage ELSE saveData(g)

\* The script runs: grades is read from localStorage, then the initial
\* render.  A reload of the page runs it again.
LoadScript ==
    /\ app = "script"
    /\ grades' = (IF storage.has THEN storage.data ELSE <<>>)
    /\ renderTable(grades')
    /\ pc' = "ready"
    /\ declined' = FALSE
    /\ UNCHANGED <<app, clock>>

\* addGrade that puts the new entry in front of the collection.
addGrade_unshift ==
    /\ app = "script" /\ pc = "ready"
    /\ Len(grades) < MaxGrades
    /\ \E subject \in FormSubjects, coef \in FormCoefs, cc \in FormNotes,
          tp \in FormNotes, exam \in FormExams :
          /\ grades' = <<Entry(subject, coef, cc, tp, exam, 0)>> \o grades
          /\ renderTable(grades')
    /\ declined' = FALSE
    /\ UNCHANGED <<app, pc, clock>>

addGrade ==
    /\ app = "script" /\ pc = "ready"
    /\ Len(grades) < MaxGrades
    /\ \E subject \in FormSubjects, coef \in FormCoefs, cc \in FormNotes,
          tp \in FormNotes, exam \in FormExams :
          /\ grades' = Append(grades, Entry(subject, coef, cc, tp, exam, 0))
          /\ renderTable(grades')
    /\ declined' = FALSE
    /\ UNCHANGED <<app, pc, clock>>

\* grades.splice(index, 1)
Splice(g, index) == [i \in 1..(Len(g) - 1) |-> IF i < index THEN g[i] ELSE g[i + 1]]

\* window.deleteGrade that removes the entry whatever confirm() returns.
windowDeleteGrade_unconfirmed ==
    /\ app = "script" /\ pc = "ready"
    /\ \E index \in 1..Len(rows), confirm \in BOOLEAN :
          /\ grades' = Splice(grades, index)
          /\ renderTable(grades')
          /\ declined' = ~confirm
    /\ UNCHANGED <<app, pc, clock>>

\* window.deleteGrade(index), called from the button of a rendered row.
windowDeleteGrade ==
    /\ app = "script" /\ pc = "ready"
    /\ \E index \in 1..Len(rows), confirm \in BOOLEAN :
          /\ IF confirm
             THEN /\ grades' = Splice(grades, index)
                  /\ renderTable(grades')
             ELSE UNCHANGED <<grades, rows, generalAvg, validatedCount, dangerCount, storage>>
          /\ declined' = ~confirm
    /\ UNCHANGED <<app, pc, clock>>

resetBtnClick ==
    /\ app = "script" /\ pc = "ready"
    /\ \E confirm \in BOOLEAN :
          /\ IF confirm
             THEN /\ grades' = <<>>
                  /\ renderTable(grades')
             ELSE UNCHANGED <<grades, rows, generalAvg, validatedCount, dangerCount, storage>>
          /\ declined' = ~confirm
    /\ UNCHANGED <<app, pc, clock>>

\* ------------------------------------------------------------------------
\* React component
\* ------------------------------------------------------------------------
\* One render of the component on the state g, and the effect that runs
\* after it: the computed values, the table rows, the stored item.
Avg(e) == calculateAverage(e.cc, e.tp, e.exam)

\* totalCoef that counts the entries instead of adding their coefficients.
totalCoef_count(g) == N(Len(g))

totalCoef(g) == SumNums([i \in 1..Len(g) |-> parseFloat(g[i].coef)])

totalPoints(g) == SumNums([i \in 1..Len(g) |-> Mul(Avg(g[i]), parseFloat(g[i].coef))])

\* generalAvg without the guard on totalCoef: 0 / 0 is NaN.
computedGeneralAvg_unguarded(g) ==
    IF Gt(totalCoef(g), 0) THEN QuotientToFixed(totalPoints(g), totalCoef(g)) ELSE NaN

computedGeneralAvg(g) ==
    IF Gt(totalCoef(g), 0) THEN QuotientToFixed(totalPoints(g), totalCoef(g)) ELSE N(0)

computedValidatedCount(g) == Cardinality({i \in 1..Len(g) : Ge(Avg(g[i]), 100000)})

computedDangerCount(g) == Cardinality({i \in 1..Len(g) : Lt(Avg(g[i]), 80000)})

render(g) ==
    /\ rows' = [i \in 1..Len(g) |-> [avg |-> Avg(g[i]), style |-> getStyleParams(Avg(g[i]))]]
    /\ generalAvg' = Shown(computedGeneralAvg(g))
    /\ validatedCount' = Shown(N(computedValidatedCount(g)))
    /\ dangerCount' = Shown(N(computedDangerCount(g)))
    /\ storage' = Item(g)

\* The component mounts: useState reads localStorage, first render, effect.
LoadComponent ==
    /\ app = "component"
    /\ grades' = (IF storage.has THEN storage.data ELSE <<>>)
    /\ render(grades')
    /\ pc' = "ready"
    /\ declined' = FALSE
    /\ UNCHANGED <<app, clock>>

\* handleSubmit that leaves the two counts as they were computed for the
\* collection before the entry was added.
handleSubmit_stale ==
    /\ app = "component" /\ pc = "ready"
    /\ Len(grades) < MaxGrades
    /\ \E subject \in FormSubjects, coef \in FormCoefs, cc \in FormNotes,
          tp \in FormNotes, exam \in FormExams :
          IF subject = "" \/ exam = Empty
          THEN UNCHANGED <<grades, rows, generalAvg, validatedCount, dangerCount, storage>>
          ELSE /\ grades' = Append(grades, Entry(subject, coef, cc, tp, exam, clock))
               /\ rows' = [i \in 1..Len(grades') |->
                             [avg |-> Avg(grades'[i]), style |-> getStyleParams(Avg(grades'[i]))]]
               /\ generalAvg' = Shown(computedGeneralAvg(grades'))
               /\ UNCHANGED <<validatedCount, dangerCount>>
               /\ storage' = Item(grades')
    /\ declined' = FALSE
    /\ UNCHANGED <<app, pc, clock>>

\* handleSubmit on the form data the input changes have left.
handleSubmit ==
    /\ app = "component" /\ pc = "ready"
    /\ Len(grades) < MaxGrades
    /\ \E subject \in FormSubjects, coef \in FormCoefs, cc \in FormNotes,
          tp \in FormNotes, exam \in FormExams :
          IF subject = "" \/ exam = Empty
          THEN UNCHANGED <<grades, rows, generalAvg, validatedCount, dangerCount, storage>>
          ELSE /\ grades' = Append(grades, Entry(subject, coef, cc, tp, exam, clock))
               /\ render(grades')
    /\ declined' = FALSE
    /\ UNCHANGED <<app, pc, clock>>

\* grades.filter(g => g.id !== id)
RECURSIVE FilterOutId(_, _)
FilterOutId(g, id) ==
    IF g = <<>> THEN <<>>
    ELSE IF Head(g).id # id THEN <<Head(g)>> \o FilterOutId(Tail(g), id)
    ELSE FilterOutId(Tail(g), id)

\* deleteGrade(grade.id), called from the button of a rendered row.
deleteGrade ==
    /\ app = "component" /\ pc = "ready"
    /\ \E index \in 1..Len(grades), confirm \in BOOLEAN :
          /\ IF confirm
             THEN /\ grades' = FilterOutId(grades, grades[index].id)
                  /\ render(grades')
             ELSE UNCHANGED <<grades, rows, generalAvg, validatedCount, dangerCount, storage>>
          /\ declined' = ~confirm
    /\ UNCHANGED <<app, pc, clock>>

resetAll ==
    /\ app = "component" /\ pc = "ready"
    /\ Len(grades) > 0
    /\ \E confirm \in BOOLEAN :
          /\ IF confirm
             THEN /\ grades' = <<>>
                  /\ render(grades')
             ELSE UNCHANGED <<grades, rows, generalAvg, validatedCount, dangerCount, storage>>
          /\ declined' = ~confirm
    /\ UNCHANGED <<app, pc, clock>>

\* Time passes between two events: Date.now() grows.
Tick ==
    /\ app = "component" /\ pc = "ready"
    /\ clock < MaxClock
    /\ clock' = clock + 1
    /\ declined' = FALSE
    /\ UNCHANGED <<app, pc, grades, storage, rows, generalAvg, validatedCount, dangerCount>>

\* ------------------------------------------------------------------------
\* Specifications
\* ------------------------------------------------------------------------
Blank0 ==
    /\ pc = "boot"
    /\ grades = <<>>
    /\ rows = <<>>
    /\ generalAvg = Dash
    /\ validatedCount = Dash
    /\ dangerCount = Dash
    /\ clock = 1
    /\ declined = FALSE

\* The page is opened for the first time: nothing is stored.
Init ==
    /\ app \in Apps
    /\ storage = NoItem
    /\ Blank0

Next ==
    \/ LoadScript
    \/ addGrade
    \/ windowDeleteGrade
    \/ resetBtnClick
    \/ LoadComponent
    \/ handleSubmit
    \/ deleteGrade
    \/ resetAll
    \/ Tick

Spec == Init /\ [][Next]_vars

\* The page is opened on a collection stored earlier, of any content.
InitStored ==
    /\ app \in Apps
    /\ storage \in {Item(g) : g \in StoredCollections}
    /\ Blank0

NextStored ==
    \/ (pc = "boot" /\ LoadScript)
    \/ (pc = "boot" /\ LoadComponent)

SpecStored == InitStored /\ [][NextStored]_vars

\* ------------------------------------------------------------------------
\* Properties
\* ------------------------------------------------------------------------
IsNumber(x) == x.k = "num"

Rows == 1..Len(grades)

\* The sum of f[i] over the finite set S of integers.
RECURSIVE SumOver(_, _)
SumOver(S, f) ==
    IF S = {} THEN 0
    ELSE LET i == CHOOSE j \in S : TRUE IN f[i] + SumOver(S \ {i}, f)

\* The status a style stands for, in either program.
Status(style) ==
    CASE style \in {"grade-excellent", "Excellent"} -> "Excellent"
      [] style \in {"grade-good", "Valide"} -> "Good"
      [] style \in {"grade-warning", "Rattrapage"} -> "Warning"
      [] style \in {"grade-danger", "Echec"} -> "Danger"

\* C1: for every entry whose CC and TP are both present and numeric, the
\* subject average the program computes is exactly
\* 0.3*CC + 0.2*TP + 0.5*Exam, not rounded.
C1_ExactThreeScores ==
    pc = "ready" =>
        \A i \in Rows :
            (IsNumber(grades[i].cc) /\ IsNumber(grades[i].tp) /\ IsNumber(grades[i].exam))
            => rows[i].avg = N(3 * grades[i].cc.v + 2 * grades[i].tp.v + 5 * grades[i].exam.v)

\* C2: for every entry with exactly one of CC and TP present, the subject
\* average is 0.4*x + 0.6*Exam for the present score x, whichever of the
\* two fields holds it.
C2_ExactTwoScores ==
    pc = "ready" =>
        \A i \in Rows :
            /\ (IsNumber(grades[i].cc) /\ grades[i].tp \in Absent /\ IsNumber(grades[i].exam))
               => rows[i].avg = N(4 * grades[i].cc.v + 6 * grades[i].exam.v)
            /\ (IsNumber(grades[i].tp) /\ grades[i].cc \in Absent /\ IsNumber(grades[i].exam))
               => rows[i].avg = N(4 * grades[i].tp.v + 6 * grades[i].exam.v)

\* C3: for every entry with neither CC nor TP present, the subject average
\* is the exam score, unchanged.
C3_ExamUnchanged ==
    pc = "ready" =>
        \A i \in Rows :
            (grades[i].cc \in Absent /\ grades[i].tp \in Absent /\ IsNumber(grades[i].exam))
            => rows[i].avg = N(10 * grades[i].exam.v)

\* C4: the general average is the sum of (subject average * coefficient)
\* over the sum of the coefficients, both sums taken over the entries whose
\* coefficient is numeric and not negative only; the other entries
\* contribute to neither sum.
C4_Counted == {i \in Rows : IsNumber(grades[i].coef) /\ grades[i].coef.v >= 0}
C4_Points == [i \in Rows |-> rows[i].avg.v * grades[i].coef.v]
C4_Coef == [i \in Rows |-> grades[i].coef.v]
C4_GeneralAverage ==
    (pc = "ready" /\ Len(grades) > 0 /\ \A i \in Rows : ~rows[i].avg.nan) =>
        generalAvg =
            IF SumOver(C4_Counted, C4_Coef) = 0 THEN Shown(N(0))
            ELSE Shown(N(100 * RoundDiv(SumOver(C4_Counted, C4_Points),
                                        100 * SumOver(C4_Counted, C4_Coef))))

\* The subject average of an entry as the specification defines it, in
\* ten-thousandths: a CC or TP that is no number is absent, an exam that is
\* no number is 0.
SubjectAverage(e) ==
    LET score(x) == IF IsNumber(x) THEN x.v ELSE 0
    IN  IF IsNumber(e.cc) /\ IsNumber(e.tp)
        THEN 3 * e.cc.v + 2 * e.tp.v + 5 * score(e.exam)
        ELSE IF IsNumber(e.cc) \/ IsNumber(e.tp)
        THEN 4 * (score(e.cc) + score(e.tp)) + 6 * score(e.exam)
        ELSE 10 * score(e.exam)

\* C5: validatedCount counts the entries whose subject average is >= 10,
\* dangerCount those whose subject average is < 8, an entry in [8, 10) is
\* in neither, and the two counts add up to the number of entries less the
\* number of entries in [8, 10).
C5_Validated == {i \in Rows : SubjectAverage(grades[i]) >= 100000}
C5_Danger == {i \in Rows : SubjectAverage(grades[i]) < 80000}
C5_Band == {i \in Rows : SubjectAverage(grades[i]) >= 80000
                         /\ SubjectAverage(grades[i]) < 100000}
C5_Counts ==
    (pc = "ready" /\ Len(grades) > 0) =>
        /\ validatedCount = Shown(N(Cardinality(C5_Validated)))
        /\ dangerCount = Shown(N(Cardinality(C5_Danger)))
        /\ validatedCount.v + dangerCount.v = Len(grades) - Cardinality(C5_Band)

\* C6: every average has exactly one status, with inclusive lower
\* thresholds: Excellent iff >= 16, Good iff in [10, 16), Warning iff in
\* [8, 10), Danger iff < 8; so 16.00 is Excellent, 15.99 and 10.00 are
\* Good, 9.99 and 8.00 are Warning, 7.99 is Danger.
C6_Classify(v) ==
    IF v >= 160000 THEN "Excellent"
    ELSE IF v >= 100000 THEN "Good"
    ELSE IF v >= 80000 THEN "Warning"
    ELSE "Danger"
C6_ClassifyStatus ==
    pc = "ready" =>
        \A i \in Rows :
            ~rows[i].avg.nan =>
                /\ Status(rows[i].style) = C6_Classify(rows[i].avg.v)
                /\ rows[i].avg.v = 160000 => Status(rows[i].style) = "Excellent"
                /\ rows[i].avg.v \in {159900, 100000} => Status(rows[i].style) = "Good"
                /\ rows[i].avg.v \in {99900, 80000} => Status(rows[i].style) = "Warning"
                /\ rows[i].avg.v = 79900 => Status(rows[i].style) = "Danger"
\* A row whose average is exactly 10.00 is shown as Good, by either program.
C6_Witness ==
    /\ pc = "ready"
    /\ \E i \in Rows : rows[i].avg = N(100000) /\ Status(rows[i].style) = "Good"

\* C7: when the exam score is missing or not numeric the subject average
\* is computed with Exam = 0 (0 with neither CC nor TP, 0.4*x with one,
\* 0.3*CC + 0.2*TP with both), and it is never a non-number.
C7_Score(x) == IF IsNumber(x) THEN x.v ELSE 0
C7_ExamDefaultsToZero ==
    pc = "ready" =>
        \A i \in Rows :
            (/\ ~IsNumber(grades[i].exam)
             /\ (IsNumber(grades[i].cc) \/ grades[i].cc \in Absent)
             /\ (IsNumber(grades[i].tp) \/ grades[i].tp \in Absent))
            => rows[i].avg =
                 IF IsNumber(grades[i].cc) /\ IsNumber(grades[i].tp)
                 THEN N(3 * grades[i].cc.v + 2 * grades[i].tp.v)
                 ELSE N(4 * (C7_Score(grades[i].cc) + C7_Score(grades[i].tp)))

\* C8: whenever the coefficients of a collection (of at least one entry)
\* add up to 0, the general average is 0, and not the result of a division
\* by zero.
C8_SumOfCoefs == SumOver(Rows, C4_Coef)
C8_ZeroCoefficients ==
    (/\ pc = "ready" /\ Len(grades) > 0
     /\ \A i \in Rows : IsNumber(grades[i].coef)
     /\ C8_SumOfCoefs = 0)
    => generalAvg = Shown(N(0))
\* Two entries of coefficient 0, one of them with an average above 0.
C8_Witness ==
    /\ pc = "ready" /\ Len(grades) = 2
    /\ \A i \in Rows : grades[i].coef = Num(0)
    /\ \E i \in Rows : ~rows[i].avg.nan /\ rows[i].avg.v > 0
    /\ generalAvg = Shown(N(0))

C10_Malformed(e) ==
    \/ ~IsNumber(e.exam)
    \/ e.cc \in {Text, Blank}
    \/ e.tp \in {Text, Blank}
    \/ ~IsNumber(e.coef)
C10_Weight == [i \in Rows |-> C7_Score(grades[i].coef)]
C10_Points == [i \in Rows |-> SubjectAverage(grades[i]) * C10_Weight[i]]
C10_NeverFails ==
    (pc = "ready" /\ \E i \in Rows : C10_Malformed(grades[i])) =>
        /\ ~generalAvg.nan
        /\ SumOver(Rows, C10_Weight) > 0 =>
              generalAvg = Shown(N(100 * RoundDiv(SumOver(Rows, C10_Points),
                                                  100 * SumOver(Rows, C10_Weight))))

C12_ScenarioAsStated ==
    (pc = "ready" /\ grades = ScenarioCollection)
    => (/\ rows[1].avg = N(104000)
        /\ rows[2].avg = N(160000)
        /\ rows[3].avg = N(48000)
        /\ generalAvg = Shown(N(104000))
        /\ validatedCount = Shown(N(2))
        /\ dangerCount = Shown(N(1)))
\* C12: on that collection the rows show the averages 11.4
\* (0.3*12 + 0.2*14 + 0.5*10), 16 and 4.8, the general average is 10.9
\* ((11.4*2 + 16 + 4.8) / 4), two subjects are validated and one is in
\* danger.
C12_Scenario ==
    (pc = "ready" /\ grades = ScenarioCollection)
    => (/\ rows[1].avg = N(114000)
        /\ rows[2].avg = N(160000)
        /\ rows[3].avg = N(48000)
        /\ generalAvg = Shown(N(109000))
        /\ validatedCount = Shown(N(2))
        /\ dangerCount = Shown(N(1)))
\* Either program has loaded the three entries and shown their statistics.
C12_Witness ==
    /\ pc = "ready"
    /\ grades = ScenarioCollection
    /\ Len(rows) = 3
    /\ generalAvg.t = "text"

\* C13: a continuous-assessment or practical score that is not provided,
\* empty or not numeric is treated as absent: the average of the entry is
\* the one the program computes for the same entry with that score left
\* out.
C13_LeftOut(x) == IF IsNumber(x) THEN x ELSE Undefined
C13_AsIfLeftOut(e) == [e EXCEPT !.cc = C13_LeftOut(e.cc), !.tp = C13_LeftOut(e.tp)]
C13_NonNumericIsAbsent ==
    pc = "ready"
    => \A i \in Rows :
          rows[i].avg = IF app = "script"
                        THEN calculerMoyenne(C13_AsIfLeftOut(grades[i]))
                        ELSE Avg(C13_AsIfLeftOut(grades[i]))

\* C14: once the page runs, after every add, delete and clear-all the copy
\* kept under the storage key equals the collection in memory (nothing
\* stored reads back as the empty collection), so a reload restores the
\* collection last seen and an emptied collection stays empty.
C14_Persisted == IF storage.has THEN storage.data ELSE <<>>
C14_PersistedEqualsMemory ==
    pc = "ready" => C14_Persisted = grades

\* C15: after every add, delete and clear-all the general average and the
\* two counts on the page are the ones the program computes over the whole
\* collection as it is now, never those of an earlier collection.
C15_StatisticsAreFresh ==
    pc = "ready"
    => IF app = "script"
       THEN /\ generalAvg = updateStats(grades).generalAvg
            /\ validatedCount = updateStats(grades).validated
            /\ dangerCount = updateStats(grades).danger
       ELSE /\ generalAvg = Shown(computedGeneralAvg(grades))
            /\ validatedCount = Shown(N(computedValidatedCount(grades)))
            /\ dangerCount = Shown(N(computedDangerCount(grades)))
\* Two entries have been added and the statistics count one of them as
\* validated.
C15_Witness ==
    /\ pc = "ready"
    /\ Len(grades) = 2
    /\ validatedCount = Shown(N(1))
    /\ generalAvg.t = "text" /\ ~generalAvg.nan

\* C16: an entry is accepted only with a subject name that is not empty and
\* with an exam score, so every entry of the collection has both.
C16_EntriesAreValid ==
    \A i \in Rows : grades[i].subject # "" /\ IsNumber(grades[i].exam)

\* C17: a delete or a clear-all whose confirmation is declined changes
\* nothing: the collection, the stored copy, the table and the statistics
\* are as they were before the request.
C17_DeclinedChangesNothing ==
    [][declined'
       => (/\ grades' = grades
           /\ storage' = storage
           /\ rows' = rows
           /\ generalAvg' = generalAvg
           /\ validatedCount' = validatedCount
           /\ dangerCount' = dangerCount)]_vars
\* A confirmation has just been declined on a collection that has entries.
C17_Witness ==
    /\ pc = "ready"
    /\ declined
    /\ Len(grades) > 0
    /\ storage = Item(grades)

\* C18: adding an entry puts it at the end of the collection and leaves the
\* entries that were there, and their order, as they were; an entry with
\* the subject name of an existing entry is added as a separate entry.
C18_AddAppends ==
    [][Len(grades') = Len(grades) + 1
       => SubSeq(grades', 1, Len(grades)) = grades]_vars
\* A second entry with the subject name and the scores of the first has
\* been added after it.
C18_Witness ==
    /\ pc = "ready"
    /\ Len(grades) = 2
    /\ grades[1].subject = grades[2].subject
    /\ grades[1].exam = grades[2].exam

\* C19: a confirmed delete removes the entry it was asked for and no other:
\* the collection is one entry shorter and the other entries stay in their
\* order, also when entries have equal fields or equal ids.
C19_OneEntryLess ==
    \E index \in 1..Len(grades) :
        /\ Len(grades') = Len(grades) - 1
        /\ \A i \in 1..Len(grades') :
              grades'[i] = IF i < index THEN grades[i] ELSE grades[i + 1]
C19_DeleteRemovesOne ==
    [][((windowDeleteGrade \/ deleteGrade) /\ ~declined') => C19_OneEntryLess]_vars

\* C20: the DOM script and the React component agree on every collection:
\* what the running program shows (the status of every row, the two
\* counts, the general average) is what the other program computes for the
\* same collection, also for averages just below a threshold.  Stated for
\* the collections both programs are meant for: entries with a numeric
\* exam score, a positive coefficient and scores that are numeric or
\* absent.
C20_WellFormed(e) ==
    /\ IsNumber(e.exam)
    /\ IsNumber(e.coef) /\ e.coef.v > 0
    /\ e.cc # Blank /\ e.tp # Blank
C20_ScriptStatus(e) ==
    Status(getStyleMoyenne(calculerMoyenne([cc |-> e.cc, tp |-> e.tp, exam |-> e.exam])))
C20_ComponentStatus(e) == Status(getStyleParams(Avg(e)))
C20_ProgramsAgree ==
    (pc = "ready" /\ Len(grades) > 0 /\ \A i \in Rows : C20_WellFormed(grades[i]))
    => IF app = "script"
       THEN /\ \A i \in Rows : Status(rows[i].style) = C20_ComponentStatus(grades[i])
            /\ validatedCount = Shown(N(computedValidatedCount(grades)))
            /\ dangerCount = Shown(N(computedDangerCount(grades)))
            /\ generalAvg = Shown(computedGeneralAvg(grades))
       ELSE /\ \A i \in Rows : Status(rows[i].style) = C20_ScriptStatus(grades[i])
            /\ validatedCount = updateStats(grades).validated
            /\ dangerCount = updateStats(grades).danger
            /\ generalAvg = updateStats(grades).generalAvg

\* C21: the counts are consistent with the status of the rows: the number
\* of validated subjects shown is the number of rows classified Excellent
\* or Good, the number of subjects in danger shown is the number of rows
\* classified Danger, and the rows classified Warning are the ones counted
\* in neither.
C21_RowsWith(statuses) == {i \in Rows : Status(rows[i].style) \in statuses}
C21_CountsMatchStatus ==
    (pc = "ready" /\ Len(grades) > 0)
    => (/\ validatedCount = Shown(N(Cardinality(C21_RowsWith({"Excellent", "Good"}))))
        /\ dangerCount = Shown(N(Cardinality(C21_RowsWith({"Danger"}))))
        /\ validatedCount.v + dangerCount.v + Cardinality(C21_RowsWith({"Warning"}))
              = Len(grades))

\* C22 as stated: when every score of every entry is in 0..20 and every
\* coefficient is positive, each subject average lies in [0, 20] and the
\* general average of a collection that has entries lies between the
\* smallest and the largest subject average.
C22_Score(x) == IsNumber(x) /\ x.v >= 0 /\ x.v <= 20000
C22_InRange(e) ==
    /\ C22_Score(e.exam)
    /\ e.cc \in Absent \/ C22_Score(e.cc)
    /\ e.tp \in Absent \/ C22_Score(e.tp)
    /\ IsNumber(e.coef) /\ e.coef.v > 0
C22_Applies ==
    /\ pc = "ready"
    /\ Len(grades) > 0
    /\ \A i \in Rows : C22_InRange(grades[i])
C22_AveragesInRange ==
    \A i \in Rows : ~rows[i].avg.nan /\ rows[i].avg.v >= 0 /\ rows[i].avg.v <= 200000
C22_BetweenExactAverages ==
    C22_Applies
    => (/\ C22_AveragesInRange
        /\ generalAvg.t = "text" /\ ~generalAvg.nan
        /\ \E i \in Rows : rows[i].avg.v <= generalAvg.v
        /\ \E i \in Rows : generalAvg.v <= rows[i].avg.v)
\* C22: under the same conditions each subject average lies in [0, 20] and
\* the general average, which is rounded to two decimals, lies between the
\* smallest and the largest subject average rounded to two decimals (hence
\* in [0, 20]).
C22_BetweenRoundedAverages ==
    C22_Applies
    => (/\ C22_AveragesInRange
        /\ generalAvg.t = "text" /\ ~generalAvg.nan
        /\ generalAvg.v >= 0 /\ generalAvg.v <= 200000
        /\ \E i \in Rows : toFixed(rows[i].avg).v <= generalAvg.v
        /\ \E i \in Rows : generalAvg.v <= toFixed(rows[i].avg).v)
\* Two entries in range with different averages and coefficients, and a
\* general average strictly between the two.
C22_Witness ==
    /\ C22_Applies
    /\ Len(grades) = 2
    /\ grades[1].coef # grades[2].coef
    /\ rows[1].avg.v < generalAvg.v
    /\ generalAvg.v < rows[2].avg.v

====
